---------------------------- MODULE Spec2Model ----------------------------
(***************************************************************************)
(* A model of pyqtgraph/graphicsItems/BoxplotItem.py: the whisker policy   *)
(* (IQR_1p5, validateWhiskerFunc), the lazily built picture cache of       *)
(* BoxplotItem (setData, setWhiskerFunc, generatePicture) and the queries  *)
(* that read it (paint, boundingRect, pixelPadding).                       *)
(*                                                                         *)
(* Numbers.  Python floats are modelled as exact fixed-point integers:     *)
(* a data-space length v is the integer v * Unit.  Pixel lengths (the      *)
(* length of one device pixel in data space) are given in hundredths of a  *)
(* data unit, device-pixel paddings in PadUnits (ten-thousandths of a      *)
(* pixel), so that the product of the two is again a number of Units.      *)
(* Box widths are given in tenths of a data unit.  Rounding of floats is   *)
(* not modelled.                                                           *)
(*                                                                         *)
(* Left out: dataBounds/calculateDataBounds, which read the options only   *)
(* and write nothing; the notifications prepareGeometryChange and          *)
(* informViewBoundsChanged sent to the scene; self.outlierData, which is   *)
(* only ever set to the empty dict; pens, brushes and the marker shape     *)
(* apart from the width and the mode of the outline pen.  pixelVectors()   *)
(* is taken to return two vectors (the item is in a view).                 *)
(***************************************************************************)
EXTENDS Integers, Sequences, FiniteSets, TLC

VARIABLES
    opts,          \* self.opts, a dict: key -> value
    whiskerFunc,   \* self.whiskerFunc, the name of the installed policy
    picture,       \* self.picture: [present, cmds]; present = FALSE is None
    boundsSet,     \* TRUE once the attributes _boxBounds/_pixelPadding exist
    boxBounds,     \* self._boxBounds, a QRectF
    pixelPadding,  \* self._pixelPadding, in ten-thousandths of a pixel
    pixelLen,      \* host: lengths of pixelVectors(), <<px, py>> in hundredths
    lastCall,      \* history: the last call made on the item and its outcome
    nChanges       \* history: setData/setWhiskerFunc calls and zooms so far

vars == <<opts, whiskerFunc, picture, boundsSet, boxBounds, pixelPadding,
          pixelLen, lastCall, nChanges>>

----------------------------------------------------------------------------
(* Bounds of the model *)

MaxBoxes == 2          \* longest data list passed to setData
MaxChanges == 2        \* setData/setWhiskerFunc calls and zooms after construction

(* Fixed-point resolution and program constants *)

PadUnit == 10000       \* integer steps per device pixel of padding
Unit == 100 * PadUnit  \* integer steps per data unit
DiagFactor == 7072     \* the factor 0.7072, in PadUnit steps
DefaultWidthTenths == 8   \* width defaults to 0.8
DefaultSymbolSize == 10
DefaultPenWidth == 1      \* fn.mkPen("y") : width 1, cosmetic

NoneInt == 0 - 1       \* an absent (None) numeric option

----------------------------------------------------------------------------
(* Generic helpers *)

Min2(a, b) == IF a <= b THEN a ELSE b
Max2(a, b) == IF a >= b THEN a ELSE b

RECURSIVE Insert(_, _)
Insert(x, s) ==
    IF s = <<>> THEN <<x>>
    ELSE IF x <= Head(s) THEN <<x>> \o s
    ELSE <<Head(s)>> \o Insert(x, Tail(s))

RECURSIVE Sorted(_)
Sorted(s) == IF s = <<>> THEN <<>> ELSE Insert(Head(s), Sorted(Tail(s)))

RECURSIVE SeqMin(_)
SeqMin(s) == IF Len(s) = 1 THEN s[1] ELSE Min2(s[1], SeqMin(Tail(s)))

RECURSIVE SeqMax(_)
SeqMax(s) == IF Len(s) = 1 THEN s[1] ELSE Max2(s[1], SeqMax(Tail(s)))

ToUnits(dataset) == [i \in 1..Len(dataset) |-> dataset[i] * Unit]

----------------------------------------------------------------------------
(* QRectF, as far as the item uses it *)

Rect(x, y, w, h) == [x |-> x, y |-> y, w |-> w, h |-> h]
NullRect == Rect(0, 0, 0, 0)
IsNull(r) == r.w = 0 /\ r.h = 0

Left(r) == IF r.w < 0 THEN r.x + r.w ELSE r.x
Right(r) == IF r.w < 0 THEN r.x ELSE r.x + r.w
Top(r) == IF r.h < 0 THEN r.y + r.h ELSE r.y
Bottom(r) == IF r.h < 0 THEN r.y ELSE r.y + r.h

United(a, b) ==
    IF IsNull(a) THEN b
    ELSE IF IsNull(b) THEN a
    ELSE LET l == Min2(Left(a), Left(b))
             r == Max2(Right(a), Right(b))
             t == Min2(Top(a), Top(b))
             m == Max2(Bottom(a), Bottom(b))
         IN  Rect(l, t, r - l, m - t)

Adjusted(r, dx1, dy1, dx2, dy2) ==
    Rect(r.x + dx1, r.y + dy1, r.w + dx2 - dx1, r.h + dy2 - dy1)

----------------------------------------------------------------------------
(* Statistics *)

\* a[i] + (r/4) * (a[i+1] - a[i]) for the sorted data a (i counted from 0)
Interpolate(s, i, r) ==
    IF r = 0 THEN s[i + 1]
    ELSE s[i + 1] + (r * (s[i + 2] - s[i + 1])) \div 4

\* the percentile at the virtual index v/4 of the sorted data
AtIndex(s, v) == Interpolate(s, v \div 4, v % 4)

\* np.percentile(data, 25*k), linear interpolation, data in Units:
\* the virtual index is k*(n-1)/4 into the sorted data.
Percentile(dataset, k) == AtIndex(Sorted(dataset), k * (Len(dataset) - 1))

\* lines 22-24 of IQR_1p5; both fences are given doubled
Snap(data, upper_theory2, lower_theory2) ==
    << SeqMin(SelectSeq(data, LAMBDA v : 2 * v >= lower_theory2)),
       SeqMax(SelectSeq(data, LAMBDA v : 2 * v <= upper_theory2)) >>

\* lines 20-24 of IQR_1p5; the fences are computed doubled, to stay in integers
Fences(data, p75, p25) ==
    Snap(data, 2 * p75 + 3 * (p75 - p25), 2 * p25 - 3 * (p75 - p25))

\* IQR_1p5(data): <<lower, upper>>
IQR_1p5(dataset) ==
    Fences(dataset, Percentile(dataset, 3), Percentile(dataset, 1))

\* A caller-supplied policy that passes validation: lambda d: (min(d), max(d))
MinMax(dataset) == <<SeqMin(dataset), SeqMax(dataset)>>

----------------------------------------------------------------------------
(* Whisker policies.  A policy is named; Candidates are the values a      *)
(* caller may hand to setWhiskerFunc.                                      *)

ValidFuncs == {"IQR_1p5", "MinMax"}
Candidates == ValidFuncs \cup
    {"NotCallable", "RaisesValueError", "RaisesZeroDivisionError",
     "ReturnsNone", "ReturnsTriple", "ReturnsStrPair"}

\* func(dataset) for the policies that return a pair of numbers
Apply(func, dataset) ==
    IF func = "MinMax" THEN MinMax(dataset) ELSE IQR_1p5(dataset)

\* the exception func([1, 2, 3]) raises itself, "none" if it returns
CallExc(func) ==
    CASE func = "NotCallable" -> "TypeError"
      [] func = "RaisesValueError" -> "ValueError"
      [] func = "RaisesZeroDivisionError" -> "ZeroDivisionError"
      [] OTHER -> "none"

\* the shape of what func([1, 2, 3]) returns
RetShape(func) ==
    CASE func = "ReturnsNone" -> "none"
      [] func = "ReturnsTriple" -> "triple"
      [] OTHER -> "pair"

\* the exception of the unpacking  l, h = <returned value>
UnpackExc(shape) ==
    CASE shape = "none" -> "TypeError"
      [] shape = "triple" -> "ValueError"
      [] OTHER -> "none"

\* isNumber(l) and isNumber(h) for a returned pair
PairIsNumeric(func) ==
    /\ func \in ValidFuncs
    /\ LET r == Apply(func, ToUnits(<<1, 2, 3>>))
       IN  r[1] \in Int /\ r[2] \in Int

\* what the try block of validateWhiskerFunc raises, "none" if nothing
ProbeExc(func) ==
    IF CallExc(func) # "none" THEN CallExc(func) ELSE UnpackExc(RetShape(func))

CaughtExc == {"TypeError", "ValueError"}

\* validateWhiskerFunc(func): the value returned, or the exception that
\* leaves the function.
validateWhiskerFunc(func) ==
    IF ProbeExc(func) = "none" THEN [valid |-> PairIsNumeric(func), exc |-> "none"]
    ELSE IF ProbeExc(func) \in CaughtExc THEN [valid |-> FALSE, exc |-> "none"]
    ELSE [valid |-> FALSE, exc |-> ProbeExc(func)]

----------------------------------------------------------------------------
(* Options.  self.opts maps each key to a value.  The keys brush,          *)
(* medianPen, symbol, symbolPen and symbolBrush select colours and the     *)
(* marker shape only and are left out.                                     *)

Keys == {"loc", "data", "locAsX", "width", "pen", "outlier", "symbolSize"}

NoLoc == [kind |-> "None", val |-> <<>>]
NoData == [kind |-> "None", val |-> <<>>]
NoPen == [isNone |-> TRUE, width |-> 0, cosmetic |-> TRUE]

\* the dict built in __init__
DefaultOpts ==
    [k \in Keys |->
        CASE k = "loc" -> NoLoc
          [] k = "data" -> NoData
          [] k = "locAsX" -> TRUE
          [] k = "width" -> NoneInt
          [] k = "pen" -> NoPen
          [] k = "outlier" -> TRUE
          [] k = "symbolSize" -> NoneInt]

\* self.opts.update(upd)
Update(o, upd) == [k \in Keys |-> IF k \in DOMAIN upd THEN upd[k] ELSE o[k]]

----------------------------------------------------------------------------
(* The painter recording into the picture *)

Identity == [dx |-> 0, dy |-> 0, s |-> 1]

Cmd(kind, i, tr, pen, geom) ==
    [kind |-> kind, sample |-> i, tr |-> tr, pen |-> pen, geom |-> geom]

NoPicture == [present |-> FALSE, cmds |-> <<>>]

\* the style values generatePicture derives from the options (lines 122-151)
PenWidthOf(pen) == IF pen.isNone THEN DefaultPenWidth ELSE pen.width
PenCosmeticOf(pen) == pen.isNone \/ pen.cosmetic
OrDefault(v, default) == IF v = NoneInt THEN default ELSE v

Style(o, pl) ==
    [locAsX |-> o["locAsX"],
     width |-> OrDefault(o["width"], DefaultWidthTenths) * (Unit \div 10),
     cosmetic |-> PenCosmeticOf(o["pen"]),
     pw |-> PenWidthOf(o["pen"]) * DiagFactor,
     outlier |-> o["outlier"],
     symbolSize |-> OrDefault(o["symbolSize"], DefaultSymbolSize),
     spx |-> pl[1] * DiagFactor * OrDefault(o["symbolSize"], DefaultSymbolSize),
     spy |-> pl[2] * DiagFactor * OrDefault(o["symbolSize"], DefaultSymbolSize)]

\* p.resetTransform(); p.translate(*tr.map(x, y)); p.scale(symbolSize, symbolSize);
\* p.drawPath(symbol)                                 (lines 165-168)
DrawMarker(st, x, y, i, sty) ==
    [st EXCEPT
       !.tr = [dx |-> x, dy |-> y, s |-> sty.symbolSize],
       !.cmds = Append(@, Cmd("outlier", i,
                              [dx |-> x, dy |-> y, s |-> sty.symbolSize],
                              "symbolPen", <<0, 0, 0, 0>>))]

\* for o in outlierData: ...                          (lines 163-168)
RECURSIVE DrawOutliers(_, _, _, _, _)
DrawOutliers(st, pos, outlierData, i, sty) ==
    IF outlierData = <<>> THEN st
    ELSE DrawOutliers(
           IF sty.locAsX THEN DrawMarker(st, pos, Head(outlierData), i, sty)
           ELSE DrawMarker(st, Head(outlierData), pos, i, sty),
           pos, Tail(outlierData), i, sty)

\* bounds of outliers                                 (lines 170-175)
OutlierBounds(st, pos, omin, omax, sty) ==
    IF sty.locAsX
    THEN [st EXCEPT !.bounds =
            United(@, Rect(pos - sty.spx, omin - sty.spy,
                           2 * sty.spx, omax - omin + 2 * sty.spy))]
    ELSE [st EXCEPT !.bounds =
            United(@, Rect(omin - sty.spx, pos - sty.spy,
                           omax - omin + 2 * sty.spx, 2 * sty.spy))]

\* lines 163-175, for the outliers selected by the mask
OutlierDraw(st, pos, outlierData, i, sty) ==
    IF Len(outlierData) > 0
    THEN OutlierBounds(DrawOutliers(st, pos, outlierData, i, sty),
                       pos, SeqMin(outlierData), SeqMax(outlierData), sty)
    ELSE st

\* the outlier block of one loop iteration           (lines 158-175)
OutlierPass(st, pos, dataset, lower, upper, i, sty) ==
    IF ~sty.outlier THEN st
    ELSE OutlierDraw(st, pos,
                     SelectSeq(dataset, LAMBDA v : v < lower \/ v > upper),
                     i, sty)

\* p.drawLine(QPointF(a1, b1), QPointF(a2, b2)), with a the position axis
Line(kind, pen, a1, b1, a2, b2, tr, i, sty) ==
    IF sty.locAsX THEN Cmd(kind, i, tr, pen, <<a1, b1, a2, b2>>)
    ELSE Cmd(kind, i, tr, pen, <<b1, a1, b2, a2>>)

\* p.drawRect(QRectF(...)) of the box                 (lines 191-194)
Box(pos, w, p25, p75, tr, i, sty) ==
    IF sty.locAsX
    THEN Cmd("box", i, tr, "pen", <<pos - w \div 2, p25, w, p75 - p25>>)
    ELSE Cmd("box", i, tr, "pen", <<p25, pos - w \div 2, p75 - p25, w>>)

\* whisker caps and stems, box, median line          (lines 177-200)
BoxPass(st, pos, p25, median, p75, lower, upper, i, sty) ==
    [st EXCEPT !.cmds = @ \o
      << Line("cap", "pen", pos - sty.width \div 4, upper,
              pos + sty.width \div 4, upper, st.tr, i, sty),
         Line("cap", "pen", pos - sty.width \div 4, lower,
              pos + sty.width \div 4, lower, st.tr, i, sty),
         Line("stem", "pen", pos, upper, pos, p75, st.tr, i, sty),
         Line("stem", "pen", pos, lower, pos, p25, st.tr, i, sty),
         Box(pos, sty.width, p25, p75, st.tr, i, sty),
         Line("median", "medianPen", pos - sty.width \div 2, median,
              pos + sty.width \div 2, median, st.tr, i, sty) >>]

\* rect of one box                                    (lines 202-205)
BoxRect(pos, w, lower, upper, sty) ==
    IF sty.locAsX
    THEN Rect(pos - w \div 2, lower, w, upper - lower)
    ELSE Rect(lower, pos - w \div 2, upper - lower, w)

\* BoundsPass with the pen's pixel width recorded for every pen, whether
\* cosmetic or not
BoundsPass_PadAlways(st, pos, lower, upper, sty) ==
    IF sty.cosmetic
    THEN [st EXCEPT
            !.bounds = United(@, BoxRect(pos, sty.width, lower, upper, sty)),
            !.pad = Max2(@, sty.pw)]
    ELSE [st EXCEPT
            !.bounds = United(@, Adjusted(BoxRect(pos, sty.width, lower, upper, sty),
                                          -(sty.pw * 100), -(sty.pw * 100),
                                          sty.pw * 100, sty.pw * 100)),
            !.pad = Max2(@, sty.pw)]

\* the contribution of one box to the bounds         (lines 206-210);
\* pw, a number of PadUnits, is pw * 100 Units as a data-space length
BoundsPass(st, pos, lower, upper, sty) ==
    IF sty.cosmetic
    THEN [st EXCEPT
            !.bounds = United(@, BoxRect(pos, sty.width, lower, upper, sty)),
            !.pad = Max2(@, sty.pw)]
    ELSE [st EXCEPT
            !.bounds = United(@, Adjusted(BoxRect(pos, sty.width, lower, upper, sty),
                                          -(sty.pw * 100), -(sty.pw * 100),
                                          sty.pw * 100, sty.pw * 100))]

\* DrawBox with the outlier markers drawn after the box instead of before
DrawBox_BoxFirst(st, pos, dataset, p25, median, p75, wh, i, sty) ==
    BoundsPass(
        OutlierPass(
            BoxPass(st, pos, p25, median, p75, wh[1], wh[2], i, sty),
            pos, dataset, wh[1], wh[2], i, sty),
        pos, wh[1], wh[2], sty)

\* lines 158-210 of the loop body: outliers, then whiskers, box and median,
\* then the bounds; wh is <<lower, upper>>
DrawBox(st, pos, dataset, p25, median, p75, wh, i, sty) ==
    BoundsPass(
        BoxPass(
            OutlierPass(st, pos, dataset, wh[1], wh[2], i, sty),
            pos, p25, median, p75, wh[1], wh[2], i, sty),
        pos, wh[1], wh[2], sty)

\* lines 155-156 and on: the statistics of dataset, then its drawing
DrawStats(st, pos, dataset, i, wf, sty) ==
    DrawBox(st, pos, dataset,
            Percentile(dataset, 1), Percentile(dataset, 2), Percentile(dataset, 3),
            Apply(wf, dataset), i, sty)

\* one iteration of  for pos, dataset in zip(loc, data)
DrawSample(st, pos, raw, i, wf, sty) ==
    DrawStats(st, pos, ToUnits(raw), i, wf, sty)

RECURSIVE DrawLoop(_, _, _, _, _, _)
DrawLoop(st, loc, data, i, wf, sty) ==
    IF i > Len(data) \/ i > Len(loc) THEN st
    ELSE DrawLoop(DrawSample(st, loc[i] * Unit, data[i], i, wf, sty),
                  loc, data, i + 1, wf, sty)

\* np.arange(n)
Arange(n) == [i \in 1..n |-> i - 1]

\* the fields after a method that has run generatePicture, and its exception
Fields(pic, bset, bb, pad, rebuilt, exc) ==
    [picture |-> pic, boundsSet |-> bset, boxBounds |-> bb,
     pixelPadding |-> pad, rebuilt |-> rebuilt, exc |-> exc]

\* p.end() and lines 213-214, st being the painter and bounds after the loop
Finish(st) ==
    Fields([present |-> TRUE, cmds |-> st.cmds], TRUE, st.bounds, st.pad,
           TRUE, "none")

\* lines 140-146: a painter on the picture, empty bounds, no padding
Begin == [cmds |-> <<>>, tr |-> Identity, bounds |-> NullRect, pad |-> 0]

\* lines 106-107
NewPicture(pic) == IF ~pic.present THEN [present |-> TRUE, cmds |-> <<>>] ELSE pic

\* generatePicture(), run on the item's fields.  The value is the fields
\* afterwards and the exception that left the method ("none" if it returned).
generatePicture(o, wf, pl, pic, bset, bb, pad) ==
    IF o["data"].kind # "List"
    THEN Fields(NewPicture(pic), bset, bb, pad, FALSE, "none")
    ELSE IF o["loc"].kind = "List"
    THEN IF Len(o["loc"].val) # Len(o["data"].val)
         THEN Fields(NewPicture(pic), bset, bb, pad, FALSE, "ValueError")
         ELSE Finish(DrawLoop(Begin, o["loc"].val, o["data"].val, 1, wf,
                              Style(o, pl)))
    ELSE Finish(DrawLoop(Begin, Arange(Len(o["data"].val)), o["data"].val, 1, wf,
                         Style(o, pl)))

----------------------------------------------------------------------------
(* The arguments the model passes to the item *)

Samples == { <<1, 2, 3>>, <<0, 0, 0, 4>> }

RECURSIVE ListsUpTo(_)
ListsUpTo(n) ==
    IF n = 0 THEN { <<>> }
    ELSE ListsUpTo(n - 1) \cup [1..n -> Samples]

DataValues ==
    {NoData, [kind |-> "NotList", val |-> <<>>]}
    \cup {[kind |-> "List", val |-> d] : d \in ListsUpTo(MaxBoxes)}

LocValues ==
    {NoLoc} \cup {[kind |-> "List", val |-> [i \in 1..n |-> 2 * i]] :
                     n \in 1..(MaxBoxes + 1)}

PenValues == {NoPen,
              [isNone |-> FALSE, width |-> 2, cosmetic |-> TRUE],
              [isNone |-> FALSE, width |-> 2, cosmetic |-> FALSE]}

Values(k) ==
    CASE k = "loc" -> LocValues
      [] k = "data" -> DataValues
      [] k = "locAsX" -> BOOLEAN
      [] k = "width" -> {NoneInt, 4}
      [] k = "pen" -> PenValues
      [] k = "outlier" -> BOOLEAN
      [] k = "symbolSize" -> {NoneInt, 4}

\* keyword arguments of one setData call: none or one key
SetDataArgs ==
    { <<>> }
    \cup UNION { [{k} -> Values(k)] : k \in Keys }

PixelLens == { <<1, 1>>, <<2, 3>> }

----------------------------------------------------------------------------
(* The item *)

Call(op, arg, exc, rect, pad, rebuilt, ran) ==
    [op |-> op, arg |-> arg, exc |-> exc, rect |-> rect, pad |-> pad,
     rebuilt |-> rebuilt, ran |-> ran]

\* __init__(**upd): the default options, setWhiskerFunc(IQR_1p5), setData(**upd)
Init ==
    \E upd \in SetDataArgs :
        /\ opts = Update(DefaultOpts, upd)
        /\ whiskerFunc = "IQR_1p5"
        /\ picture = NoPicture
        /\ boundsSet = FALSE
        /\ boxBounds = NullRect
        /\ pixelPadding = 0
        /\ pixelLen \in PixelLens
        /\ lastCall = Call("init", "", "none", NullRect, 0, FALSE, FALSE)
        /\ nChanges = 0

\* setData(**upd)
SetData(upd) ==
    /\ opts' = Update(opts, upd)
    /\ picture' = NoPicture
    /\ lastCall' = Call("setData", "", "none", NullRect, 0, FALSE, FALSE)
    /\ UNCHANGED <<whiskerFunc, boundsSet, boxBounds, pixelPadding, pixelLen>>

\* setWhiskerFunc(func)
SetWhiskerFunc(func) ==
    \E v \in {validateWhiskerFunc(func)} :
        /\ IF v.exc = "none" /\ v.valid
           THEN whiskerFunc' = func /\ picture' = NoPicture
           ELSE UNCHANGED <<whiskerFunc, picture>>
        /\ lastCall' = Call("setWhiskerFunc", func, v.exc, NullRect, 0, FALSE, FALSE)
        /\ UNCHANGED <<opts, boundsSet, boxBounds, pixelPadding, pixelLen>>

\* the fields and exception g, and whether generatePicture was entered
Entered(g, ran) ==
    [picture |-> g.picture, boundsSet |-> g.boundsSet, boxBounds |-> g.boxBounds,
     pixelPadding |-> g.pixelPadding, rebuilt |-> g.rebuilt, exc |-> g.exc,
     ran |-> ran]

\* if self.picture is None: self.generatePicture()
EnsurePicture ==
    IF picture.present
    THEN Entered(Fields(picture, boundsSet, boxBounds, pixelPadding, FALSE, "none"),
                 FALSE)
    ELSE Entered(generatePicture(opts, whiskerFunc, pixelLen, picture,
                                 boundsSet, boxBounds, pixelPadding), TRUE)

\* the assignments of EnsurePicture to the item's fields
Store(g) ==
    /\ picture' = g.picture
    /\ boundsSet' = g.boundsSet
    /\ boxBounds' = g.boxBounds
    /\ pixelPadding' = g.pixelPadding
    /\ UNCHANGED <<opts, whiskerFunc, pixelLen>>

\* paint(p)
Paint ==
    \E g \in {EnsurePicture} :
        /\ Store(g)
        /\ lastCall' = Call("paint", "", g.exc, NullRect, 0, g.rebuilt, g.ran)

\* the rectangle boundingRect() computes from the stored fields (lines 225-237)
PaddedRect(bb, pad, pl) ==
    IF pad > 0
    THEN Adjusted(bb, -(pl[1] * pad), -(pl[2] * pad), pl[1] * pad, pl[2] * pad)
    ELSE Adjusted(bb, 0, 0, 0, 0)

\* the exception of a method that reads self._pixelPadding after the build
ReadExc(g) ==
    IF g.exc # "none" THEN g.exc
    ELSE IF ~g.boundsSet THEN "AttributeError" ELSE "none"

\* boundingRect()
BoundingRect ==
    \E g \in {EnsurePicture} :
        /\ Store(g)
        /\ lastCall' =
             Call("boundingRect", "", ReadExc(g),
                  IF ReadExc(g) = "none"
                  THEN PaddedRect(g.boxBounds, g.pixelPadding, pixelLen)
                  ELSE NullRect,
                  0, g.rebuilt, g.ran)

\* pixelPadding()
PixelPadding ==
    \E g \in {EnsurePicture} :
        /\ Store(g)
        /\ lastCall' =
             Call("pixelPadding", "", ReadExc(g), NullRect,
                  IF ReadExc(g) = "none" THEN g.pixelPadding ELSE 0,
                  g.rebuilt, g.ran)

\* the host view is zoomed: pixelVectors() changes, the item is not told
Zoom(pl) ==
    /\ pl # pixelLen
    /\ pixelLen' = pl
    /\ lastCall' = Call("zoom", "", "none", NullRect, 0, FALSE, FALSE)
    /\ UNCHANGED <<opts, whiskerFunc, picture, boundsSet, boxBounds,
                   pixelPadding>>

\* a call that changes options or policy, or a zoom: counted against MaxChanges
Counted(A) == nChanges < MaxChanges /\ nChanges' = nChanges + 1 /\ A

\* a call that reads the cache
Query(A) == A /\ UNCHANGED nChanges

Next ==
    \/ \E upd \in SetDataArgs : Counted(SetData(upd))
    \/ \E func \in Candidates : Counted(SetWhiskerFunc(func))
    \/ Query(Paint)
    \/ Query(BoundingRect)
    \/ Query(PixelPadding)
    \/ \E pl \in PixelLens : Counted(Zoom(pl))

Spec == Init /\ [][Next]_vars

----------------------------------------------------------------------------
(* Vocabulary of the properties *)

Data == opts["data"]
Loc == opts["loc"]
Queries == {"paint", "boundingRect", "pixelPadding"}

\* loc is an explicit list whose length differs from that of the data list
Mismatch(o) ==
    /\ o["data"].kind = "List"
    /\ o["loc"].kind = "List"
    /\ Len(o["loc"].val) # Len(o["data"].val)

\* the options are such that a build runs to its end
Completes == Data.kind = "List" /\ ~Mismatch(opts)

\* a picture is cached and the build that made it ran to its end
Built == picture.present /\ Completes

\* the fields a build from the present options would store at scale pl
Fresh(pl) ==
    generatePicture(opts, whiskerFunc, pl, NoPicture, FALSE, NullRect, 0)

\* the width and mode of the outline pen in effect
PenWidth == IF opts["pen"].isNone THEN 1 ELSE opts["pen"].width
PenCosmetic == opts["pen"].isNone \/ opts["pen"].cosmetic

\* what the probe of validateWhiskerFunc meets: an exception of any kind, or
\* a result that is not a pair of numbers
InvalidCandidate(func) ==
    \/ CallExc(func) # "none"
    \/ RetShape(func) # "pair"
    \/ ~PairIsNumeric(func)

\* the statistics of box i, read back from the recorded commands
CmdsOf(i, kind) ==
    SelectSeq(picture.cmds, LAMBDA c : c.sample = i /\ c.kind = kind)
ValueOf(c) == IF opts["locAsX"] THEN c.geom[2] ELSE c.geom[1]
ExtentOf(c) == IF opts["locAsX"] THEN c.geom[4] ELSE c.geom[3]
NumBoxes == Len(SelectSeq(picture.cmds, LAMBDA c : c.kind = "box"))
UpperOf(i) == ValueOf(CmdsOf(i, "cap")[1])
LowerOf(i) == ValueOf(CmdsOf(i, "cap")[2])
P25Of(i) == ValueOf(CmdsOf(i, "box")[1])
P75Of(i) == P25Of(i) + ExtentOf(CmdsOf(i, "box")[1])
MedianOf(i) == ValueOf(CmdsOf(i, "median")[1])

\* the kinds and sample numbers of the recorded commands, in order
Recorded == [k \in DOMAIN picture.cmds |->
                <<picture.cmds[k].kind, picture.cmds[k].sample>>]

\* the number of outlier markers of sample i
NumOutliers(i) ==
    IF ~opts["outlier"] THEN 0
    ELSE LET d == ToUnits(Data.val[i])
             wh == Apply(whiskerFunc, d)
         IN  Len(SelectSeq(d, LAMBDA v : v < wh[1] \/ v > wh[2]))

Repeat(x, n) == [k \in 1..n |-> x]
BoxKinds(i) == << <<"cap", i>>, <<"cap", i>>, <<"stem", i>>, <<"stem", i>>,
                  <<"box", i>>, <<"median", i>> >>

RECURSIVE OutliersFirst(_)
OutliersFirst(n) ==
    IF n = 0 THEN <<>>
    ELSE OutliersFirst(n - 1) \o Repeat(<<"outlier", n>>, NumOutliers(n))
                              \o BoxKinds(n)

RECURSIVE OutliersLast(_)
OutliersLast(n) ==
    IF n = 0 THEN <<>>
    ELSE OutliersLast(n - 1) \o BoxKinds(n)
                             \o Repeat(<<"outlier", n>>, NumOutliers(n))

----------------------------------------------------------------------------
(* Properties *)

C2_InvalidPolicyRejectedQuietly ==
    [][\A func \in Candidates :
          (InvalidCandidate(func) /\ SetWhiskerFunc(func))
          => (lastCall'.exc = "none" /\ whiskerFunc' = whiskerFunc)]_vars

\* C3: while data is None or not a list, paint(), boundingRect() and
\* pixelPadding() complete without error, boundingRect() returns the empty
\* rectangle and pixelPadding() returns zero.
C3_NoDataGivesEmptyBounds ==
    (Data.kind # "List" /\ lastCall.op \in Queries)
    => /\ lastCall.exc = "none"
       /\ lastCall.op = "boundingRect" => lastCall.rect = NullRect
       /\ lastCall.op = "pixelPadding" => lastCall.pad = 0

\* C4: whenever a picture is cached, the raw bounds and the pixel padding
\* exist and are those of the build that recorded the picture, made from the
\* options and the policy now in effect.
C4_CacheRebuiltTogether ==
    picture.present
    => /\ boundsSet
       /\ \E pl \in PixelLens :
             /\ Fresh(pl).rebuilt
             /\ picture = Fresh(pl).picture
             /\ boxBounds = Fresh(pl).boxBounds
             /\ pixelPadding = Fresh(pl).pixelPadding

\* C5: under the IQR_1p5 policy the statistics of every box drawn satisfy
\* lowerWhisker <= p25 <= median <= p75 <= upperWhisker.
C5_WhiskersEncloseBox ==
    (Built /\ whiskerFunc = "IQR_1p5")
    => \A i \in 1..NumBoxes :
          /\ LowerOf(i) <= P25Of(i)
          /\ P25Of(i) <= MedianOf(i)
          /\ MedianOf(i) <= P75Of(i)
          /\ P75Of(i) <= UpperOf(i)

\* the part of C6 that does not depend on the factor: what boundingRect()
\* and pixelPadding() return after a build with at least one sample
C6_Returned ==
    /\ lastCall.op = "pixelPadding"
         => (lastCall.exc = "none" /\ lastCall.pad = pixelPadding)
    /\ lastCall.op = "boundingRect"
         => /\ lastCall.exc = "none"
            /\ lastCall.rect =
                 Adjusted(boxBounds,
                          -(pixelLen[1] * pixelPadding), -(pixelLen[2] * pixelPadding),
                          pixelLen[1] * pixelPadding, pixelLen[2] * pixelPadding)

C7_FootprintResolvedAtQuery ==
    (Built /\ lastCall.op = "boundingRect" /\ lastCall.exc = "none")
    => lastCall.rect =
         PaddedRect(Fresh(pixelLen).boxBounds, Fresh(pixelLen).pixelPadding, pixelLen)

\* C8 (as amended): samples are recorded in input order and, for each sample,
\* its outlier markers come first (when outliers are shown), then the two
\* whisker caps, the two stems, the box and the median line.
C8_OutliersThenBox ==
    Built => Recorded = OutliersFirst(Len(Data.val))

\* C8 (as claimed): for each sample the caps, the stems, the box and the
\* median line are recorded first and that sample's outlier markers last.
C8_BoxThenOutliers ==
    Built => Recorded = OutliersLast(Len(Data.val))

\* a picture of two boxes, recorded by the last call, of which the second has
\* an outlier marker
C8_Witness ==
    /\ Built /\ Len(Data.val) = 2 /\ lastCall.rebuilt
    /\ \E k \in DOMAIN picture.cmds :
          picture.cmds[k].kind = "outlier" /\ picture.cmds[k].sample = 2

\* C9: a boundingRect() call that directly follows a boundingRect() call has
\* the same outcome and does not enter the geometry build, which so runs at
\* most once in the two calls.
C9_BoundingRectIdempotent ==
    [][(lastCall.op = "boundingRect" /\ BoundingRect)
          => /\ lastCall'.exc = lastCall.exc
             /\ lastCall'.rect = lastCall.rect
             /\ ~lastCall'.ran]_vars

\* C10: every whisker cap, stem, box and median line is recorded under the
\* transform the painter had when the build began.
C10_ShapesInDataCoordinates ==
    \A k \in DOMAIN picture.cmds :
        picture.cmds[k].kind # "outlier" => picture.cmds[k].tr = Identity

=============================================================================
